---- MODULE Spec2Model ----
(***************************************************************************)
(* A model of the two HTTP clients of the web-search agent:                *)
(*   NosanaLLM          (src/src/llm.ts)            the inference client   *)
(*   BrightDataScraper  (src/src/tools/scraper.ts)  the search client      *)
(*   WebSearchTool      (src/unnamed/part_000)      the tool adapter       *)
(* JavaScript strings are TLA+ strings (TLC evaluates \o, Len and SubSeq   *)
(* on them); JSON values are tagged records; axios is the environment: it  *)
(* answers each POST with a response or with an error object.              *)
(***************************************************************************)
EXTENDS Integers, Sequences, FiniteSets, TLC

VARIABLES
    baseUrl,    \* NosanaLLM.baseUrl
    model,      \* NosanaLLM.model
    ctorArgs,   \* the arguments and environment of the last constructor call
    pc,         \* call id -> "idle" | "primary" | "alternate" | "done"
    op,         \* call id -> "none" | "generate" | "chat"
    arg,        \* call id -> Prompt(text) (generate) or Messages(list) (chat)
    sent,       \* the POSTs issued so far, in order: [call, url, data]
    received,   \* call id -> the axios outcomes of its POSTs, in order
    outcome,    \* call id -> how the call ended: Pending, Return(v) or Throw(e)
    parseIn,    \* the response handed to parseResponse
    parseFmt,   \* the format handed to parseResponse
    parseOut,   \* what parseResponse did with it
    scraper,    \* BrightDataScraper: [apiToken, baseUrl, zone]
    sPc,        \* searchWeb: "idle" | "posted" | "done"
    sArgs,      \* searchWeb: [query, limit]
    sSent,      \* searchWeb: the POSTs issued, in order
    sReceived,  \* searchWeb: the axios outcome of the POST
    sOutcome,   \* searchWeb: Pending, Return(results) or Throw(e)
    sLog,       \* the searchWeb calls that returned to their caller
    tool        \* WebSearchTool._call: [pc, query, searches, outcome]

llmVars    == <<pc, op, arg, sent, received, outcome>>
cfgVars    == <<baseUrl, model, ctorArgs>>
parseVars  == <<parseIn, parseFmt, parseOut>>
searchVars == <<scraper, sPc, sArgs, sSent, sReceived, sOutcome, sLog, tool>>
vars       == <<cfgVars, llmVars, parseVars, searchVars>>

(***************************************************************************)
(* JavaScript values.                                                      *)
(***************************************************************************)
Undef     == [t |-> "undef"]
JNull     == [t |-> "null"]
JStr(s)   == [t |-> "str", s |-> s]
JNum(n)   == [t |-> "num", n |-> n]
JBool(b)  == [t |-> "bool", b |-> b]
JArr(seq) == [t |-> "arr", a |-> seq]
\* an object is the sequence of its <<key, value>> pairs, in insertion order.
\* (Each type keeps its value in a field of its own, so that two values of
\* different types are records over different fields.)
JObj(kvs) == [t |-> "obj", o |-> kvs]

\* JavaScript truthiness: undefined, null, "", 0 and false are falsy
Truthy(x) ==
    CASE x.t = "undef" -> FALSE
      [] x.t = "null"  -> FALSE
      [] x.t = "str"   -> x.s # ""
      [] x.t = "num"   -> x.n # 0
      [] x.t = "bool"  -> x.b
      [] OTHER         -> TRUE

\* x[k] for a property name k: undefined unless x is an object that has k.
\* (Reading a property of null or undefined throws; callers guard that.)
Get(x, k) ==
    IF x.t = "obj" /\ \E i \in 1..Len(x.o) : x.o[i][1] = k
    THEN LET i == CHOOSE j \in 1..Len(x.o) :
                      /\ x.o[j][1] = k
                      /\ \A m \in (j+1)..Len(x.o) : x.o[m][1] # k
         IN  x.o[i][2]
    ELSE Undef

Has(x, k) == x.t = "obj" /\ \E i \in 1..Len(x.o) : x.o[i][1] = k

IsArray(x) == x.t = "arr"

\* reading a property of x throws a TypeError
Nullish(x) == x.t \in {"undef", "null"}

RECURSIVE Spaces(_)
Spaces(n) == IF n = 0 THEN "" ELSE " " \o Spaces(n - 1)

\* JSON.stringify(x, null, indent), at nesting depth d.  indent = 0 is the
\* compact form JSON.stringify(x).  The strings of the model hold no
\* character that JSON escapes.
RECURSIVE Stringify(_, _, _)
Stringify(x, indent, d) ==
    LET nl(k)  == IF indent = 0 THEN "" ELSE "\n" \o Spaces(indent * k)
        colon  == IF indent = 0 THEN ":" ELSE ": "
        item(e) == IF e.t = "undef" THEN "null" ELSE Stringify(e, indent, d + 1)
        RECURSIVE items(_, _)
        items(s, i) ==
            IF i > Len(s) THEN ""
            ELSE (IF i > 1 THEN "," ELSE "") \o nl(d + 1) \o item(s[i])
                 \o items(s, i + 1)
        RECURSIVE pairs(_, _)
        pairs(s, i) ==
            IF i > Len(s) THEN ""
            ELSE (IF i > 1 THEN "," ELSE "") \o nl(d + 1)
                 \o "\"" \o s[i][1] \o "\"" \o colon
                 \o Stringify(s[i][2], indent, d + 1)
                 \o pairs(s, i + 1)
    IN  CASE x.t = "undef" -> "undefined"
          [] x.t = "null"  -> "null"
          [] x.t = "str"   -> "\"" \o x.s \o "\""
          [] x.t = "num"   -> ToString(x.n)
          [] x.t = "bool"  -> IF x.b THEN "true" ELSE "false"
          [] x.t = "arr"   -> IF Len(x.a) = 0 THEN "[]"
                              ELSE "[" \o items(x.a, 1) \o nl(d) \o "]"
          [] x.t = "obj"   -> IF Len(x.o) = 0 THEN "{}"
                              ELSE "{" \o pairs(x.o, 1) \o nl(d) \o "}"

StartsWith(s, p) == Len(s) >= Len(p) /\ SubSeq(s, 1, Len(p)) = p
EndsWith(s, p)   == Len(s) >= Len(p) /\ SubSeq(s, Len(s) - Len(p) + 1, Len(s)) = p

\* how an async call stands: not ended, returned v, or threw e
Pending   == [t |-> "pending"]
Return(v) == [t |-> "return", value |-> v]
Throw(e)  == [t |-> "throw", error |-> e]

\* new Error(message): no response and no request property
Error(message) ==
    [name |-> "Error", message |-> message, response |-> Undef, request |-> FALSE]
TypeError(message) ==
    [name |-> "TypeError", message |-> message, response |-> Undef, request |-> FALSE]

(***************************************************************************)
(* NosanaLLM: construction.                                                *)
(***************************************************************************)
\* baseUrl.replace(/\/+$/, ''): drop the whole run of trailing slashes
RECURSIVE StripTrailingSlashes(_)
StripTrailingSlashes(s) ==
    IF EndsWith(s, "/") THEN StripTrailingSlashes(SubSeq(s, 1, Len(s) - 1)) ELSE s

\* s.replace(/\/api$/, ''): drop one trailing "/api"
StripApiSuffix(s) ==
    IF EndsWith(s, "/api") THEN SubSeq(s, 1, Len(s) - 4) ELSE s

\* the address clean-up of the constructor
Normalize(x) == StripApiSuffix(StripTrailingSlashes(x))

DefaultModel == "ollama:0.12"

\* the resolution with the environment value tried before the argument
ResolveModel_EnvFirst(modelArg, envModel) ==
    IF Truthy(envModel) THEN envModel.s
    ELSE IF Truthy(modelArg) THEN modelArg.s
    ELSE DefaultModel

\* model || process.env.NOSANA_MODEL || 'ollama:0.12'
ResolveModel(modelArg, envModel) ==
    IF Truthy(modelArg) THEN modelArg.s
    ELSE IF Truthy(envModel) THEN envModel.s
    ELSE DefaultModel

(***************************************************************************)
(* NosanaLLM: response parsing and error classification.                   *)
(***************************************************************************)
InvalidFormat(response) ==
    Throw(Error("Invalid response format: " \o Stringify(response.data, 0, 0)))

\* the 'openai' branch of parseResponse
ParseOpenAI(response) ==
    LET data    == response.data
        choices == Get(data, "choices")
    IN  IF /\ Truthy(data) /\ Truthy(choices)
           /\ IsArray(choices) /\ Len(choices.a) > 0
        THEN LET first == choices.a[1]
             IN  IF Nullish(first)
                 THEN Throw(TypeError("Cannot read properties of "
                                      \o Stringify(first, 0, 0)
                                      \o " (reading 'message')"))
                 ELSE IF /\ Truthy(Get(first, "message"))
                         /\ Truthy(Get(Get(first, "message"), "content"))
                      THEN Return(Get(Get(first, "message"), "content"))
                      ELSE InvalidFormat(response)
        ELSE InvalidFormat(response)

\* the 'ollama' branch testing that the fields are present, not that they
\* are truthy
ParseOllama_AcceptsEmpty(response) ==
    LET data == response.data
    IN  IF Has(data, "response")
        THEN Return(Get(data, "response"))
        ELSE IF Has(Get(data, "message"), "content")
             THEN Return(Get(Get(data, "message"), "content"))
             ELSE InvalidFormat(response)

\* the 'ollama' branch with message.content tried before response
ParseOllama_MessageFirst(response) ==
    LET data == response.data
    IN  IF /\ Truthy(data) /\ Truthy(Get(data, "message"))
           /\ Truthy(Get(Get(data, "message"), "content"))
        THEN Return(Get(Get(data, "message"), "content"))
        ELSE IF Truthy(data) /\ Truthy(Get(data, "response"))
             THEN Return(Get(data, "response"))
             ELSE InvalidFormat(response)

\* the 'ollama' branch of parseResponse
ParseOllama(response) ==
    LET data == response.data
    IN  IF Truthy(data) /\ Truthy(Get(data, "response"))
        THEN Return(Get(data, "response"))
        ELSE IF /\ Truthy(data) /\ Truthy(Get(data, "message"))
                /\ Truthy(Get(Get(data, "message"), "content"))
             THEN Return(Get(Get(data, "message"), "content"))
             ELSE InvalidFormat(response)

parseResponse(response, format) ==
    IF format = "openai" THEN ParseOpenAI(response) ELSE ParseOllama(response)

\* the status test that starts the fallback
IsFallbackStatus(status) == status = 404 \/ status = 405

\* `return await fallback()` in handleApiError
Fallback == [t |-> "fallback"]

\* handleApiError with 405 left out of the fallback test
handleApiError_No405(error) ==
    IF Truthy(error.response)
    THEN IF error.response.status = 404
         THEN Fallback
         ELSE Throw(Error("Nosana API Error " \o ToString(error.response.status)
                          \o ": " \o Stringify(error.response.data, 0, 0)))
    ELSE IF error.request
         THEN Throw(Error("No response from Nosana: " \o error.message))
         ELSE Throw(Error("Request failed: " \o error.message))

\* handleApiError falling back on every 4xx status
handleApiError_Any4xx(error) ==
    IF Truthy(error.response)
    THEN IF error.response.status >= 400 /\ error.response.status < 500
         THEN Fallback
         ELSE Throw(Error("Nosana API Error " \o ToString(error.response.status)
                          \o ": " \o Stringify(error.response.data, 0, 0)))
    ELSE IF error.request
         THEN Throw(Error("No response from Nosana: " \o error.message))
         ELSE Throw(Error("Request failed: " \o error.message))

\* handleApiError falling back when no response was received
handleApiError_RetryNoResponse(error) ==
    IF Truthy(error.response)
    THEN IF IsFallbackStatus(error.response.status)
         THEN Fallback
         ELSE Throw(Error("Nosana API Error " \o ToString(error.response.status)
                          \o ": " \o Stringify(error.response.data, 0, 0)))
    ELSE IF error.request
         THEN Fallback
         ELSE Throw(Error("Request failed: " \o error.message))

\* handleApiError testing error.request before error.response
handleApiError_RequestFirst(error) ==
    IF error.request
    THEN Throw(Error("No response from Nosana: " \o error.message))
    ELSE IF Truthy(error.response)
         THEN IF IsFallbackStatus(error.response.status)
              THEN Fallback
              ELSE Throw(Error("Nosana API Error " \o ToString(error.response.status)
                               \o ": " \o Stringify(error.response.data, 0, 0)))
         ELSE Throw(Error("Request failed: " \o error.message))

\* handleApiError up to the call of fallback(): Fallback stands for
\* `return await fallback()`, every other result is the error it throws
handleApiError(error) ==
    IF Truthy(error.response)
    THEN IF IsFallbackStatus(error.response.status)
         THEN Fallback
         ELSE Throw(Error("Nosana API Error " \o ToString(error.response.status)
                          \o ": " \o Stringify(error.response.data, 0, 0)))
    ELSE IF error.request
         THEN Throw(Error("No response from Nosana: " \o error.message))
         ELSE Throw(Error("Request failed: " \o error.message))

\* the catch block of generateNativeOllama rethrowing what it caught
GenerateNativeCatch_Rethrow(error) == Throw(error)

\* the catch block of generateNativeOllama
GenerateNativeCatch(error) ==
    Throw(Error("Both API formats failed. Check Nosana documentation for correct endpoint."))

\* the catch block of chatNativeOllama
ChatNativeCatch(error) ==
    Throw(Error("Native chat also failed: " \o error.message))

(***************************************************************************)
(* The environment: what axios.post can answer.                            *)
(***************************************************************************)
\* an axios response object
Response(status, data) == [t |-> "response", status |-> status, data |-> data]

\* the error axios rejects with; response is Undef when none was received,
\* request tells whether the request was sent
AxiosError(message, response, request) ==
    [name |-> "AxiosError", message |-> message,
     response |-> response, request |-> request]

MaxChoices == 2
MaxMessages == 2

\* an object with the given fields, the absent (Undef) ones left out
ObjOf(kvs) == JObj(SelectSeq(kvs, LAMBDA p : p[2].t # "undef"))

Contents      == {JStr(""), JStr("hi"), JNull}
MessageVals   == {JNull, JStr("m"), JObj(<<>>)}
                     \cup {JObj(<< <<"content", c>> >>) : c \in Contents}
ChoiceElems   == {JNull, JStr("c"), JObj(<<>>)}
                     \cup {JObj(<< <<"message", m>> >>) : m \in MessageVals}
LaterChoices  == {JNull, JObj(<< <<"message", JObj(<< <<"content", JStr("second")>> >>)>> >>)}

RECURSIVE ChoiceLists(_)
ChoiceLists(n) ==
    IF n = 0 THEN {<<>>}
    ELSE IF n = 1 THEN {<<>>} \cup {<<e>> : e \in ChoiceElems}
    ELSE LET S == ChoiceLists(n - 1)
         IN  S \cup {Append(l, e) : l \in {x \in S : Len(x) = n - 1}, e \in LaterChoices}

ChoicesVals   == {Undef, JNull, JStr("x"), JObj(<<>>)}
                     \cup {JArr(l) : l \in ChoiceLists(MaxChoices)}
ResponseVals  == {Undef, JStr(""), JStr("yo")}
MessageFields == {Undef, JNull, JObj(<<>>),
                  JObj(<< <<"content", JStr("")>> >>),
                  JObj(<< <<"content", JStr("hey")>> >>)}

\* the response bodies (response.data) of a 2xx answer
Payloads ==
    {JNull, JStr(""), JStr("text"), JArr(<<>>)}
    \cup {ObjOf(<< <<"choices", c>>, <<"response", r>>, <<"message", m>> >>) :
             c \in ChoicesVals, r \in ResponseVals, m \in MessageFields}

ErrorStatuses == {401, 404, 405, 429, 500}
ErrorBodies   == {JStr("Not Found"), JObj(<< <<"error", JStr("denied")>> >>)}

HttpErrors ==
    {AxiosError("Request failed with status code " \o ToString(st),
                Response(st, d), rq) :
         st \in ErrorStatuses, d \in ErrorBodies, rq \in BOOLEAN}
NoResponseErrors ==
    {AxiosError(m, Undef, TRUE) :
         m \in {"timeout of 60000ms exceeded", "getaddrinfo ENOTFOUND host"}}
SetupErrors == {AxiosError("Invalid URL", Undef, FALSE)}

\* every way one axios.post can end
AxiosOutcomes ==
    {Return(Response(200, d)) : d \in Payloads}
    \cup {Throw(e) : e \in HttpErrors \cup NoResponseErrors \cup SetupErrors}

Prompts == {"", "hello"}
ChatMessages == {[role |-> "user", content |-> "q1"],
                 [role |-> "assistant", content |-> "a1"]}
RECURSIVE MessageLists(_)
MessageLists(n) ==
    IF n = 0 THEN {<<>>}
    ELSE LET S == MessageLists(n - 1)
         IN  S \cup {Append(l, m) : l \in {x \in S : Len(x) = n - 1}, m \in ChatMessages}

(***************************************************************************)
(* NosanaLLM: generate and chat.                                           *)
(***************************************************************************)
PrimaryUrl == baseUrl \o "/v1/chat/completions"
AlternateUrl(o) == baseUrl \o (IF o = "generate" THEN "/api/generate" ELSE "/api/chat")

\* makeApiCall(url, data): one axios.post with the fixed header and timeout
makeApiCall(c, url, data) ==
    [call |-> c, url |-> url, data |-> data,
     headers |-> << <<"Content-Type", "application/json">> >>, timeout |-> 60000]

\* a primary body that keeps only the newest message of a conversation
PrimaryData_LastMessageOnly(o, a) ==
    [model |-> model,
     messages |-> IF o = "generate" THEN <<[role |-> "user", content |-> a]>>
                  ELSE IF a = <<>> THEN <<>> ELSE <<a[Len(a)]>>,
     temperature |-> "0.7", max_tokens |-> 1000, stream |-> FALSE]

\* the body of the primary request
PrimaryData(o, a) ==
    [model |-> model,
     messages |-> IF o = "generate" THEN <<[role |-> "user", content |-> a]>> ELSE a,
     temperature |-> "0.7", max_tokens |-> 1000, stream |-> FALSE]

\* the alternate body built from a prompt / message list kept on the
\* instance, where the call begun last has overwritten it
AlternateData_SharedArgument(o, a) ==
    LET last == arg[sent[Len(sent)].call]
        b    == IF last.t = "prompt" THEN last.text ELSE last.list
    IN  IF o = "generate"
        THEN [model |-> model, prompt |-> b, stream |-> FALSE]
        ELSE [model |-> model, messages |-> b, stream |-> FALSE]

\* the body of the request of generateNativeOllama / chatNativeOllama
AlternateData(o, a) ==
    IF o = "generate"
    THEN [model |-> model, prompt |-> a, stream |-> FALSE]
    ELSE [model |-> model, messages |-> a, stream |-> FALSE]

\* the try block after an awaited makeApiCall: parse the response, or the
\* rejection of the POST is what was thrown
TryParse(out, format) ==
    IF out.t = "return" THEN parseResponse(out.value, format) ELSE out

\* the argument of a call, as the variable arg holds it: the two kinds are
\* records over different fields
Prompt(text)   == [t |-> "prompt", text |-> text]
Messages(list) == [t |-> "messages", list |-> list]
\* the prompt or the message list call c was made with
Argument(c) == IF arg[c].t = "prompt" THEN arg[c].text ELSE arg[c].list

\* generate(prompt), up to the first await
Generate(c, prompt) ==
    /\ pc[c] = "idle"
    /\ op' = [op EXCEPT ![c] = "generate"]
    /\ arg' = [arg EXCEPT ![c] = Prompt(prompt)]
    /\ sent' = Append(sent, makeApiCall(c, PrimaryUrl, PrimaryData("generate", prompt)))
    /\ pc' = [pc EXCEPT ![c] = "primary"]
    /\ UNCHANGED <<received, outcome, cfgVars, parseVars, searchVars>>

\* chat(messages), up to the first await
Chat(c, messages) ==
    /\ pc[c] = "idle"
    /\ op' = [op EXCEPT ![c] = "chat"]
    /\ arg' = [arg EXCEPT ![c] = Messages(messages)]
    /\ sent' = Append(sent, makeApiCall(c, PrimaryUrl, PrimaryData("chat", messages)))
    /\ pc' = [pc EXCEPT ![c] = "primary"]
    /\ UNCHANGED <<received, outcome, cfgVars, parseVars, searchVars>>

\* the primary POST of call c ends with out: the rest of generate / chat,
\* through handleApiError and, on fallback, up to the await of the
\* alternate POST
PrimaryReturns(c, out) ==
    /\ pc[c] = "primary"
    /\ received' = [received EXCEPT ![c] = Append(@, out)]
    /\ LET tried   == TryParse(out, "openai")
           handled == IF tried.t = "return" THEN tried
                      ELSE handleApiError(tried.error)
       IN  IF handled.t = "fallback"
           THEN /\ sent' = Append(sent, makeApiCall(c, AlternateUrl(op[c]),
                                                    AlternateData(op[c], Argument(c))))
                /\ pc' = [pc EXCEPT ![c] = "alternate"]
                /\ UNCHANGED outcome
           ELSE /\ outcome' = [outcome EXCEPT ![c] = handled]
                /\ pc' = [pc EXCEPT ![c] = "done"]
                /\ UNCHANGED sent
    /\ UNCHANGED <<op, arg, cfgVars, parseVars, searchVars>>

\* the alternate POST of call c ends with out: the rest of
\* generateNativeOllama / chatNativeOllama
AlternateReturns(c, out) ==
    /\ pc[c] = "alternate"
    /\ received' = [received EXCEPT ![c] = Append(@, out)]
    /\ LET tried == TryParse(out, "ollama")
       IN  outcome' = [outcome EXCEPT ![c] =
                          IF tried.t = "return" THEN tried
                          ELSE IF op[c] = "generate"
                               THEN GenerateNativeCatch(tried.error)
                               ELSE ChatNativeCatch(tried.error)]
    /\ pc' = [pc EXCEPT ![c] = "done"]
    /\ UNCHANGED <<op, arg, sent, cfgVars, parseVars, searchVars>>

\* the state right after `new NosanaLLM("http://host/api/")`, no call begun
InitClient ==
    /\ ctorArgs = [baseUrl |-> "http://host/api/", model |-> Undef, env |-> Undef]
    /\ baseUrl = Normalize("http://host/api/")
    /\ model = ResolveModel(Undef, Undef)

InitCalls(calls) ==
    /\ pc = [c \in calls |-> "idle"]
    /\ op = [c \in calls |-> "none"]
    /\ arg = [c \in calls |-> Undef]
    /\ sent = <<>>
    /\ received = [c \in calls |-> <<>>]
    /\ outcome = [c \in calls |-> Pending]

InitParseIdle == parseIn = Undef /\ parseFmt = "none" /\ parseOut = Pending

\* the state right after `new BrightDataScraper("token")`, no search begun
InitSearchIdle ==
    /\ scraper = [apiToken |-> "token", baseUrl |-> "https://api.brightdata.com",
                  zone |-> "serp_api1"]
    /\ sPc = "idle" /\ sArgs = Undef /\ sSent = <<>>
    /\ sReceived = <<>> /\ sOutcome = Pending
    /\ sLog = {}
    /\ tool = [pc |-> "idle", query |-> "", searches |-> 0, outcome |-> Pending]

Init == InitClient /\ InitCalls({1}) /\ InitParseIdle /\ InitSearchIdle

\* the awaited POST of some call ends, in any of the ways axios.post can end
PrimaryPostEnds ==
    \E c \in DOMAIN pc :
        pc[c] = "primary" /\ \E out \in AxiosOutcomes : PrimaryReturns(c, out)
AlternatePostEnds ==
    \E c \in DOMAIN pc :
        pc[c] = "alternate" /\ \E out \in AxiosOutcomes : AlternateReturns(c, out)

Next ==
    \/ \E c \in DOMAIN pc, p \in Prompts : Generate(c, p)
    \/ \E c \in DOMAIN pc, m \in MessageLists(MaxMessages) : Chat(c, m)
    \/ PrimaryPostEnds
    \/ AlternatePostEnds

Spec == Init /\ [][Next]_vars

(***************************************************************************)
(* The error taxonomy.  The code throws plain Error objects; the kind of   *)
(* an error is the fixed text its message starts with.                     *)
(***************************************************************************)
IsBackendError(e)               == StartsWith(e.message, "Nosana API Error ")
IsTransportError(e)             == StartsWith(e.message, "No response from Nosana: ")
IsRequestError(e)               == StartsWith(e.message, "Request failed: ")
IsInvalidResponseFormatError(e) == StartsWith(e.message, "Invalid response format: ")
IsBothFormatsFailedError(e)     == StartsWith(e.message, "Both API formats failed")
IsNativeChatFailedError(e)      == StartsWith(e.message, "Native chat also failed: ")

\* sub occurs in s
Contains(s, sub) ==
    \E i \in 1..(Len(s) - Len(sub) + 1) : SubSeq(s, i, i + Len(sub) - 1) = sub

(***************************************************************************)
(* Vocabulary of the claims about generate and chat.                       *)
(***************************************************************************)
Calls == DOMAIN pc
\* the POSTs of call c, in order
RequestsOf(c) == SelectSeq(sent, LAMBDA r : r.call = c)
\* the POSTs of call c to the alternate endpoint
AlternateRequestsOf(c) ==
    SelectSeq(sent, LAMBDA r : r.call = c /\ r.url = AlternateUrl(op[c]))
\* the primary POST of c has ended
PrimaryAnswered(c) == Len(received[c]) >= 1
AlternateAnswered(c) == Len(received[c]) >= 2
\* ... with an HTTP error response
PrimaryHttpError(c) ==
    /\ PrimaryAnswered(c)
    /\ received[c][1].t = "throw"
    /\ Truthy(received[c][1].error.response)
PrimaryStatus(c) == received[c][1].error.response.status
PrimaryNotFound(c) == PrimaryHttpError(c) /\ PrimaryStatus(c) \in {404, 405}
\* the request carries the argument of the call, in the alternate format
CarriesArgument(c, r) ==
    IF op[c] = "generate"
    THEN "prompt" \in DOMAIN r.data /\ r.data.prompt = Argument(c)
    ELSE "messages" \in DOMAIN r.data /\ r.data.messages = Argument(c)
\* the alternate POST of c failed: it was rejected, or answered with a
\* payload holding neither a non-empty response nor a non-empty
\* message.content
AlternateFailed(c) ==
    /\ AlternateAnswered(c)
    /\ LET out == received[c][2]
       IN  \/ out.t = "throw"
           \/ /\ out.t = "return"
              /\ ~ Truthy(Get(out.value.data, "response"))
              /\ ~ Truthy(Get(Get(out.value.data, "message"), "content"))

\* C1: when the primary POST fails with HTTP 404 or 405, exactly one POST to
\* the alternate endpoint follows, carrying the same prompt / message list,
\* and the call ends only with what the alternate call produced: text taken
\* from the alternate response, or the terminal error of the alternate path.
C1_FallbackOn404Or405 ==
    \A c \in Calls :
        PrimaryNotFound(c) =>
            /\ Len(RequestsOf(c)) = 2
            /\ Len(AlternateRequestsOf(c)) = 1
            /\ RequestsOf(c)[2].url = AlternateUrl(op[c])
            /\ CarriesArgument(c, RequestsOf(c)[2])
            /\ pc[c] = (IF AlternateAnswered(c) THEN "done" ELSE "alternate")
            /\ pc[c] = "done" =>
                  IF AlternateFailed(c)
                  THEN /\ outcome[c].t = "throw"
                       /\ \/ IsBothFormatsFailedError(outcome[c].error)
                          \/ IsNativeChatFailedError(outcome[c].error)
                  ELSE /\ outcome[c].t = "return"
                       /\ LET data == received[c][2].value.data
                          IN  outcome[c].value \in
                                 {Get(data, "response"), Get(Get(data, "message"), "content")}

C1_Witness ==
    \E c \in Calls :
        /\ PrimaryNotFound(c) /\ PrimaryStatus(c) = 405
        /\ pc[c] = "done" /\ outcome[c].t = "return"

\* C2: when the primary POST fails with an HTTP status other than 404 and
\* 405, no POST to the alternate endpoint is issued and the call throws a
\* BackendError whose message holds the status and the serialized body.
C2_OtherStatusIsBackendError ==
    \A c \in Calls :
        (PrimaryHttpError(c) /\ PrimaryStatus(c) \notin {404, 405}) =>
            /\ Len(RequestsOf(c)) = 1
            /\ Len(AlternateRequestsOf(c)) = 0
            /\ pc[c] = "done"
            /\ outcome[c].t = "throw"
            /\ IsBackendError(outcome[c].error)
            /\ Contains(outcome[c].error.message, ToString(PrimaryStatus(c)))
            /\ Contains(outcome[c].error.message,
                        Stringify(received[c][1].error.response.data, 0, 0))

C2_Witness ==
    \E c \in Calls :
        /\ PrimaryHttpError(c) /\ PrimaryStatus(c) = 401
        /\ pc[c] = "done" /\ outcome[c].t = "throw"

\* C3: when the alternate call fails (HTTP error of any status, no response,
\* or a payload the alternate parser rejects) the call throws the terminal
\* error of its path (BothFormatsFailedError for generate,
\* NativeChatFailedError for chat), never the underlying error itself, and
\* the alternate POST is the last POST of the call.
C3_AlternateFailureIsTerminal ==
    \A c \in Calls :
        AlternateFailed(c) =>
            /\ pc[c] = "done"
            /\ outcome[c].t = "throw"
            /\ IF op[c] = "generate"
               THEN IsBothFormatsFailedError(outcome[c].error)
               ELSE IsNativeChatFailedError(outcome[c].error)
            /\ received[c][2].t = "throw" => outcome[c].error # received[c][2].error
            /\ ~ IsInvalidResponseFormatError(outcome[c].error)
            /\ Len(RequestsOf(c)) = 2
            /\ RequestsOf(c)[2].url = AlternateUrl(op[c])

C3_Witness ==
    \E c \in Calls :
        /\ AlternateFailed(c) /\ op[c] = "generate"
        /\ received[c][2].t = "throw"
        /\ Truthy(received[c][2].error.response)
        /\ received[c][2].error.response.status = 404
        /\ pc[c] = "done"

\* the payload matches the primary-format shape: a non-empty choices list
\* whose first element has a message object with non-empty content
PrimaryShape(data) ==
    LET choices == Get(data, "choices")
    IN  /\ IsArray(choices) /\ Len(choices.a) > 0
        /\ Truthy(Get(Get(choices.a[1], "message"), "content"))

\* C4: when the primary POST succeeds with a payload that does not match the
\* primary-format shape, the call throws InvalidResponseFormatError holding
\* the serialized payload; a RequestError is thrown only when the primary
\* POST ended without a response and without a request.
C4_BadPayloadIsInvalidFormat ==
    \A c \in Calls :
        /\ (/\ pc[c] = "done"
            /\ received[c][1].t = "return"
            /\ ~ PrimaryShape(received[c][1].value.data)) =>
               /\ outcome[c].t = "throw"
               /\ IsInvalidResponseFormatError(outcome[c].error)
               /\ Contains(outcome[c].error.message,
                           Stringify(received[c][1].value.data, 0, 0))
        /\ (/\ pc[c] = "done"
            /\ outcome[c].t = "throw"
            /\ IsRequestError(outcome[c].error)) =>
               /\ received[c][1].t = "throw"
               /\ ~ Truthy(received[c][1].error.response)
               /\ ~ received[c][1].error.request

\* C5: when the primary POST was sent and no response was received, the call
\* throws a TransportError holding the message of the underlying error, and
\* no POST to the alternate endpoint is issued.
C5_NoResponseIsTransportError ==
    \A c \in Calls :
        (/\ PrimaryAnswered(c)
         /\ received[c][1].t = "throw"
         /\ ~ Truthy(received[c][1].error.response)
         /\ received[c][1].error.request) =>
            /\ pc[c] = "done"
            /\ outcome[c].t = "throw"
            /\ IsTransportError(outcome[c].error)
            /\ EndsWith(outcome[c].error.message, received[c][1].error.message)
            /\ Len(RequestsOf(c)) = 1
            /\ RequestsOf(c)[1].url = PrimaryUrl

C5_Witness ==
    \E c \in Calls :
        /\ pc[c] = "done" /\ op[c] = "chat"
        /\ received[c][1].t = "throw"
        /\ ~ Truthy(received[c][1].error.response)
        /\ received[c][1].error.request
        /\ received[c][1].error.message = "timeout of 60000ms exceeded"

(***************************************************************************)
(* Construction of the client from every address: SpecCtor.                *)
(***************************************************************************)
MaxAddrParts == 3

AddrParts == {"/", "/api", "/v1"}
\* "http://host" followed by at most n parts
RECURSIVE Addresses(_)
Addresses(n) ==
    IF n = 0 THEN {"http://host"}
    ELSE LET S == Addresses(n - 1)
         IN  S \cup {a \o part : a \in S, part \in AddrParts}

ModelArgs == {Undef, JStr(""), JStr("llama3")}
EnvModels == {Undef, JStr(""), JStr("qwen3:8b")}

\* new NosanaLLM(address, modelArg) with process.env.NOSANA_MODEL = envModel
Construct(address, modelArg, envModel) ==
    /\ ctorArgs' = [baseUrl |-> address, model |-> modelArg, env |-> envModel]
    /\ baseUrl' = Normalize(address)
    /\ model' = ResolveModel(modelArg, envModel)
    /\ UNCHANGED <<llmVars, parseVars, searchVars>>

\* new NosanaLLM(this.baseUrl, this.model): the client built again from the
\* address and model it holds
Reconstruct ==
    /\ ctorArgs' = [baseUrl |-> baseUrl, model |-> JStr(model), env |-> ctorArgs.env]
    /\ baseUrl' = Normalize(baseUrl)
    /\ model' = ResolveModel(JStr(model), ctorArgs.env)
    /\ UNCHANGED <<llmVars, parseVars, searchVars>>

InitCtor ==
    /\ \E address \in Addresses(MaxAddrParts), modelArg \in ModelArgs,
          envModel \in EnvModels :
          /\ ctorArgs = [baseUrl |-> address, model |-> modelArg, env |-> envModel]
          /\ baseUrl = Normalize(address)
          /\ model = ResolveModel(modelArg, envModel)
    /\ InitCalls({})
    /\ InitParseIdle /\ InitSearchIdle

NextCtor ==
    \/ \E address \in Addresses(MaxAddrParts), modelArg \in ModelArgs,
          envModel \in EnvModels : Construct(address, modelArg, envModel)
    \/ Reconstruct

SpecCtor == InitCtor /\ [][NextCtor]_vars

\* C6: the address clean-up is idempotent: the address a client holds is
\* left as it is by another clean-up (normalize(normalize(x)) =
\* normalize(x) for every x), and http://host/api and http://host/ both
\* become http://host.
C6_NormalizeIdempotent ==
    /\ Normalize(baseUrl) = baseUrl
    /\ ctorArgs.baseUrl \in {"http://host/api", "http://host/"} => baseUrl = "http://host"

Parse ==
    /\ parseOut = Pending
    /\ parseOut' = parseResponse(parseIn, parseFmt)
    /\ UNCHANGED <<parseIn, parseFmt, cfgVars, llmVars, searchVars>>

InitParse ==
    /\ parseIn \in {Response(200, d) : d \in Payloads}
    /\ parseFmt \in {"openai", "ollama"}
    /\ parseOut = Pending
    /\ InitClient /\ InitCalls({}) /\ InitSearchIdle

NextParse == Parse

SpecParse == InitParse /\ [][NextParse]_vars

Parsed(format) == parseFmt = format /\ parseOut # Pending

\* C7 as claimed: a payload that has a response field yields the value of
\* response; one without response but with message.content yields
\* message.content; every other payload fails with InvalidResponseFormatError.
C7_AlternateParsing_HasField ==
    Parsed("ollama") =>
        LET data == parseIn.data
        IN  IF Has(data, "response")
            THEN parseOut = Return(Get(data, "response"))
            ELSE IF Has(Get(data, "message"), "content")
                 THEN parseOut = Return(Get(Get(data, "message"), "content"))
                 ELSE /\ parseOut.t = "throw"
                      /\ IsInvalidResponseFormatError(parseOut.error)

\* C7 as amended: a payload with a non-empty response yields the value of
\* response (also when message.content is present); one without a non-empty
\* response but with a non-empty message.content yields message.content;
\* every other payload, an empty response or content included, fails with
\* InvalidResponseFormatError, whose message holds the serialized payload.
C7_AlternateParsing_NonEmpty ==
    Parsed("ollama") =>
        LET data == parseIn.data
        IN  IF Truthy(Get(data, "response"))
            THEN parseOut = Return(Get(data, "response"))
            ELSE IF Truthy(Get(Get(data, "message"), "content"))
                 THEN parseOut = Return(Get(Get(data, "message"), "content"))
                 ELSE /\ parseOut.t = "throw"
                      /\ IsInvalidResponseFormatError(parseOut.error)
                      /\ EndsWith(parseOut.error.message, Stringify(data, 0, 0))

C7_Witness ==
    /\ Parsed("ollama")
    /\ Get(parseIn.data, "response") = JStr("yo")
    /\ Get(Get(parseIn.data, "message"), "content") = JStr("hey")
    /\ parseOut = Return(JStr("yo"))

\* C8: the primary parser returns the content of the first choice's message
\* exactly when the payload holds a non-empty choices list whose first
\* element has a message object with non-empty content; every other payload
\* fails with InvalidResponseFormatError.
C8_PrimaryParsing ==
    Parsed("openai") =>
        LET data == parseIn.data
        IN  IF PrimaryShape(data)
            THEN parseOut = Return(Get(Get(Get(data, "choices").a[1], "message"), "content"))
            ELSE /\ parseOut.t = "throw"
                 /\ IsInvalidResponseFormatError(parseOut.error)

(***************************************************************************)
(* BrightDataScraper.searchWeb: SpecSearch.                                *)
(***************************************************************************)
SnippetLimit == 5000
MaxExtra == 2

\* the model writes a lone surrogate code unit as the text \uD800
LoneSurrogate == "\\uD800"

\* encodeURIComponent of one character of the queries of the model: the
\* unreserved characters stay, the others are percent-encoded
EncodeChar(ch) ==
    CASE ch = " " -> "%20"
      [] ch = "&" -> "%26"
      [] ch = "=" -> "%3D"
      [] ch = "?" -> "%3F"
      [] ch = "/" -> "%2F"
      [] OTHER    -> ch

RECURSIVE EncodeChars(_)
EncodeChars(q) ==
    IF q = "" THEN "" ELSE EncodeChar(SubSeq(q, 1, 1)) \o EncodeChars(SubSeq(q, 2, Len(q)))

\* encodeURIComponent(query): throws URIError on a lone surrogate
encodeURIComponent(q) ==
    IF Contains(q, LoneSurrogate)
    THEN Throw([name |-> "URIError", message |-> "URI malformed",
                response |-> Undef, request |-> FALSE])
    ELSE Return(EncodeChars(q))

\* dataString.substring(0, n)
Substring0(str, n) == SubSeq(str, 1, IF Len(str) < n THEN Len(str) ELSE n)

\* formatRawResults keeping the whole body
formatRawResults_NoLimit(data) ==
    IF ~ Truthy(data) THEN <<>>
    ELSE LET dataString == IF data.t = "str" THEN data.s ELSE Stringify(data, 2, 0)
         IN  <<[title |-> "Search Results", url |-> "https://www.google.com",
                snippet |-> dataString]>>

\* formatRawResults cutting the sequence of results to the caller's limit
formatRawResults_Limited(data) ==
    SubSeq(formatRawResults_NoLimit(data), 1,
           IF Len(formatRawResults_NoLimit(data)) < sArgs.limit
           THEN Len(formatRawResults_NoLimit(data)) ELSE sArgs.limit)

formatRawResults(data) ==
    IF ~ Truthy(data) THEN <<>>
    ELSE LET dataString == IF data.t = "str" THEN data.s ELSE Stringify(data, 2, 0)
         IN  <<[title |-> "Search Results", url |-> "https://www.google.com",
                snippet |-> Substring0(dataString, SnippetLimit)]>>

\* the catch block of searchWeb letting every error but a 401 through
SearchCatch_Only401(error) ==
    IF Truthy(error.response) /\ error.response.status = 401
    THEN Return(<<>>) ELSE Throw(error)

\* the catch block of searchWeb: log, return []
SearchCatch(error) == Return(<<>>)

\* the axios.post of searchWeb
SearchPost(searchUrl) ==
    [url |-> scraper.baseUrl \o "/request",
     data |-> [zone |-> scraper.zone, url |-> searchUrl, format |-> "json"],
     headers |-> << <<"Authorization", "Bearer " \o scraper.apiToken>>,
                    <<"Content-Type", "application/json">> >>,
     params |-> << <<"brd_json", 1>> >>]

\* searchWeb(query, limit), up to the await; limit = Undef is the call
\* without a second argument
SearchWeb(query, limit) ==
    /\ sPc = "idle"
    /\ sArgs' = [query |-> query, limit |-> IF limit.t = "undef" THEN 5 ELSE limit.n]
    /\ LET enc == encodeURIComponent(query)
       IN  IF enc.t = "throw"
           THEN /\ sOutcome' = SearchCatch(enc.error)
                /\ sPc' = "done"
                /\ UNCHANGED sSent
           ELSE /\ sSent' = Append(sSent,
                       SearchPost("https://www.google.com/search?q=" \o enc.value
                                  \o "&hl=en&gl=us"))
                /\ sPc' = "posted"
                /\ UNCHANGED sOutcome
    /\ UNCHANGED <<scraper, sReceived, cfgVars, llmVars, parseVars>>

\* the POST of searchWeb ends with out
SearchReturns(out) ==
    /\ sPc = "posted"
    /\ sReceived' = Append(sReceived, out)
    /\ sOutcome' = IF out.t = "return"
                   THEN Return(formatRawResults(out.value.data))
                   ELSE SearchCatch(out.error)
    /\ sPc' = "done"
    /\ UNCHANGED <<scraper, sArgs, sSent, cfgVars, llmVars, parseVars>>

\* n times the character c
RECURSIVE Repeat(_, _)
Repeat(c, n) ==
    IF n = 0 THEN ""
    ELSE IF n % 2 = 0 THEN LET h == Repeat(c, n \div 2) IN h \o h
    ELSE c \o Repeat(c, n - 1)

\* a text of n characters whose last character differs from the others
Text(n) == IF n = 0 THEN "" ELSE Repeat("a", n - 1) \o "z"

BodyLengths == (0..2) \cup ((SnippetLimit - 1)..(SnippetLimit + MaxExtra))

\* the bodies (response.data) of a 2xx answer of the provider
SearchBodies ==
    {Undef, JNull, JNum(0), JNum(7), JBool(FALSE), JBool(TRUE), JArr(<<>>), JObj(<<>>)}
    \cup {JStr(Text(n)) : n \in BodyLengths}
    \cup {JObj(<< <<"organic", JArr(<<JStr(Text(n))>>)>> >>) : n \in BodyLengths}

SearchErrors ==
    {AxiosError("Request failed with status code " \o ToString(st),
                Response(st, JStr("denied")), TRUE) : st \in {401, 403, 500}}
    \cup {AxiosError("socket hang up", Undef, TRUE),
          AxiosError("Invalid URL", Undef, FALSE)}

SearchOutcomes ==
    {Return(Response(200, d)) : d \in SearchBodies} \cup {Throw(e) : e \in SearchErrors}

Queries == {"", "cats", "a b", "x&y=1", "bad" \o LoneSurrogate}
Limits  == {Undef, JNum(0), JNum(1), JNum(10)}

InitSearch == InitClient /\ InitCalls({}) /\ InitParseIdle /\ InitSearchIdle

\* searchWeb called directly: the caller is not the tool, and keeps no log
NextSearch ==
    \/ \E q \in Queries, l \in Limits : SearchWeb(q, l) /\ UNCHANGED <<sLog, tool>>
    \/ \E out \in SearchOutcomes : SearchReturns(out) /\ UNCHANGED <<sLog, tool>>

SpecSearch == InitSearch /\ [][NextSearch]_vars

\* the POST of searchWeb has ended with a failure / with a response
PostFailed    == Len(sReceived) = 1 /\ sReceived[1].t = "throw"
PostSucceeded == Len(sReceived) = 1 /\ sReceived[1].t = "return"
\* the body of the answer, as the text the snippet is cut from
BodyText ==
    LET data == sReceived[1].value.data
    IN  IF data.t = "str" THEN data.s ELSE Stringify(data, 2, 0)

\* C9: searchWeb never throws: whatever the POST ends with, the call
\* returns; after a failed POST it returns the empty sequence, and that POST
\* is the only one issued.
C9_SearchNeverRaises ==
    /\ sOutcome.t # "throw"
    /\ Len(sSent) <= 1
    /\ sPc = "done" => sOutcome.t = "return"
    /\ PostFailed =>
          /\ sPc = "done"
          /\ sOutcome = Return(<<>>)
          /\ Len(sSent) = 1

C9_Witness ==
    /\ PostFailed /\ sPc = "done"
    /\ Truthy(sReceived[1].error.response)
    /\ sReceived[1].error.response.status = 403
    /\ sOutcome = Return(<<>>)

\* C10 as claimed: after a successful POST searchWeb returns exactly one
\* result, for every body, whose snippet is the first min(5000, length)
\* characters of the body (stringified if not a string).
C10_OneResultForEveryBody ==
    PostSucceeded =>
        /\ sOutcome.t = "return"
        /\ Len(sOutcome.value) = 1
        /\ sOutcome.value[1].snippet = Substring0(BodyText, SnippetLimit)
        /\ Len(sOutcome.value[1].snippet) <= SnippetLimit

\* C10 as amended: after a successful POST with a non-empty body searchWeb
\* returns exactly one result, whose snippet is the first min(5000, length)
\* characters of the body (stringified if not a string), so at most 5000
\* characters; with an empty body (none, null, "", 0 or false) it returns
\* the empty sequence.
C10_OneResultForNonEmptyBody ==
    PostSucceeded =>
        /\ sOutcome.t = "return"
        /\ IF Truthy(sReceived[1].value.data)
           THEN /\ Len(sOutcome.value) = 1
                /\ Len(sOutcome.value[1].snippet)
                      = (IF Len(BodyText) < SnippetLimit THEN Len(BodyText) ELSE SnippetLimit)
                /\ StartsWith(BodyText, sOutcome.value[1].snippet)
                /\ Len(sOutcome.value[1].snippet) <= SnippetLimit
           ELSE sOutcome.value = <<>>

C10_Witness ==
    /\ PostSucceeded
    /\ Len(BodyText) > SnippetLimit
    /\ sOutcome.t = "return"
    /\ Len(sOutcome.value) = 1
    /\ Len(sOutcome.value[1].snippet) = SnippetLimit

(***************************************************************************)
(* WebSearchTool._call: SpecTool.                                          *)
(***************************************************************************)
NoResultsMessage == "No search results found. The web search failed or returned no data."

\* the text of _call that leaves the query out of the header
ToolFormat_NoQuery(query, results) ==
    IF Len(results) = 0 THEN NoResultsMessage
    ELSE "Web search results:\n\n" \o results[1].snippet

\* what _call returns for the results of searchWeb
ToolFormat(query, results) ==
    IF Len(results) = 0 THEN NoResultsMessage
    ELSE "Web search results for \"" \o query \o "\":\n\n" \o results[1].snippet

\* _call(query), up to the await inside searchWeb(query)
ToolCall(query) ==
    /\ tool.pc = "idle"
    /\ SearchWeb(query, Undef)
    /\ tool' = [pc |-> "awaiting", query |-> query,
                searches |-> tool.searches + 1, outcome |-> Pending]
    /\ UNCHANGED sLog

\* the POST of the searchWeb the tool awaits ends with out
ToolSearchReturns(out) ==
    /\ tool.pc = "awaiting"
    /\ SearchReturns(out)
    /\ UNCHANGED <<sLog, tool>>

\* searchWeb has ended: the rest of _call
ToolResume ==
    /\ tool.pc = "awaiting"
    /\ sPc = "done"
    /\ tool' = [tool EXCEPT !.pc = "done",
                            !.outcome = IF sOutcome.t = "throw" THEN sOutcome
                                        ELSE Return(ToolFormat(tool.query, sOutcome.value))]
    /\ UNCHANGED <<scraper, sPc, sArgs, sSent, sReceived, sOutcome, sLog,
                   cfgVars, llmVars, parseVars>>

NextTool ==
    \/ \E q \in Queries : ToolCall(q)
    \/ \E out \in SearchOutcomes : ToolSearchReturns(out)
    \/ ToolResume

SpecTool == InitSearch /\ [][NextTool]_vars

\* C12: _call returns the fixed no-results message exactly when searchWeb
\* returned the empty sequence (after a failure or after an empty body);
\* otherwise it returns a header line holding the query, an empty line and
\* the snippet of the first result; it calls searchWeb once.
C12_ToolAdapter ==
    /\ tool.searches <= 1
    /\ tool.pc = "done" =>
          /\ tool.searches = 1
          /\ sArgs.query = tool.query
          /\ tool.outcome.t = "return"
          /\ (tool.outcome.value = NoResultsMessage) <=> (sOutcome.value = <<>>)
          /\ sOutcome.value # <<>> =>
                LET text   == tool.outcome.value
                    header == "Web search results for \"" \o tool.query \o "\":"
                IN  /\ StartsWith(text, header \o "\n\n")
                    /\ EndsWith(text, sOutcome.value[1].snippet)
                    /\ Len(text) = Len(header) + 2 + Len(sOutcome.value[1].snippet)

C12_Witness ==
    /\ tool.pc = "done"
    /\ tool.query = "a b"
    /\ Len(sReceived) = 1 /\ sReceived[1].t = "return"
    /\ sReceived[1].value.data = JStr(Text(SnippetLimit + 1))
    /\ tool.outcome.t = "return"
    /\ Len(tool.outcome.value) > SnippetLimit

(***************************************************************************)
(* Termination of generate and chat: SpecFair.                             *)
(***************************************************************************)
\* every POST ends: axios answers, fails, or the 60 s timeout of makeApiCall
\* rejects it
PostsComplete ==
    /\ WF_vars(PrimaryPostEnds)
    /\ WF_vars(AlternatePostEnds)

SpecFair == Spec /\ PostsComplete

\* the POSTs of call c, in order, are: none; the primary one; or the primary
\* one and then, the primary one having been answered 404 or 405, the
\* alternate one
AtMostTwoRequests(c) ==
    /\ Len(RequestsOf(c)) <= 2
    /\ Len(RequestsOf(c)) >= 1 => RequestsOf(c)[1].url = PrimaryUrl
    /\ Len(RequestsOf(c)) = 2 =>
          /\ RequestsOf(c)[2].url = AlternateUrl(op[c])
          /\ PrimaryNotFound(c)
    /\ Len(RequestsOf(c)) = (CASE pc[c] = "idle"      -> 0
                               [] pc[c] = "primary"   -> 1
                               [] pc[c] = "alternate" -> 2
                               [] pc[c] = "done"      -> Len(received[c]))
    /\ (pc[c] = "done") <=> (outcome[c].t \in {"return", "throw"})

\* C13: a call issues at most two POSTs, the first to the primary endpoint,
\* the second to the alternate endpoint and only after a 404 or 405 of the
\* primary one; once it has ended no POST follows; and, every POST ending,
\* every call that was begun ends with a returned text or a thrown error.
C13_TwoStepsThenTerminal ==
    /\ [](\A c \in {1} : AtMostTwoRequests(c))
    /\ [][\A c \in {1} : pc[c] = "done" =>
              /\ pc'[c] = "done" /\ outcome'[c] = outcome[c]
              /\ RequestsOf(c)' = RequestsOf(c)]_vars
    /\ \A c \in {1} : (pc[c] # "idle") ~> (pc[c] = "done")

C13_Witness ==
    /\ pc[1] = "done"
    /\ Len(RequestsOf(1)) = 2
    /\ outcome[1].t = "throw"

\* the message of the failure the alternate path caught: of the rejection of
\* its POST, or of the error parseResponse threw on its response
UnderlyingMessage(c) ==
    IF received[c][2].t = "throw" THEN received[c][2].error.message
    ELSE parseResponse(received[c][2].value, "ollama").error.message

\* C14: the terminal error thrown when the alternate path fails holds the
\* message of the underlying failure, for generate (BothFormatsFailedError)
\* and for chat (NativeChatFailedError).
C14_TerminalErrorWrapsMessage ==
    \A c \in Calls :
        (AlternateFailed(c) /\ pc[c] = "done") =>
            /\ outcome[c].t = "throw"
            /\ Contains(outcome[c].error.message, UnderlyingMessage(c))

(***************************************************************************)
(* Concurrent calls on one NosanaLLM instance: SpecConc.                   *)
(***************************************************************************)
MaxCalls == 2

ConcPrompts  == {"hello"}
ConcMessages == {<<[role |-> "user", content |-> "q1"]>>}
\* four of the AxiosOutcomes: a primary-format answer, an alternate-format
\* answer, a 404 and a 500
ConcOutcomes ==
    {Return(Response(200, ObjOf(<< <<"choices",
         JArr(<<JObj(<< <<"message", JObj(<< <<"content", JStr("hi")>> >>)>> >>)>>)>> >>))),
     Return(Response(200, ObjOf(<< <<"response", JStr("yo")>> >>))),
     Throw(AxiosError("Request failed with status code 404",
                      Response(404, JStr("Not Found")), TRUE)),
     Throw(AxiosError("Request failed with status code 500",
                      Response(500, JStr("Not Found")), TRUE))}

InitConc == InitClient /\ InitCalls(1..MaxCalls) /\ InitParseIdle /\ InitSearchIdle

\* the calls are begun and their POSTs end in any order
NextConc ==
    \/ \E c \in DOMAIN pc, p \in ConcPrompts : Generate(c, p)
    \/ \E c \in DOMAIN pc, m \in ConcMessages : Chat(c, m)
    \/ \E c \in DOMAIN pc :
          pc[c] = "primary" /\ \E out \in ConcOutcomes : PrimaryReturns(c, out)
    \/ \E c \in DOMAIN pc :
          pc[c] = "alternate" /\ \E out \in ConcOutcomes : AlternateReturns(c, out)

SpecConc == InitConc /\ [][NextConc]_vars

\* what call c holds
CallState(c) == <<pc[c], op[c], arg[c], received[c], outcome[c]>>

\* every POST of call c carries the argument and the endpoint of call c
OwnRequests(c) ==
    \A i \in 1..Len(RequestsOf(c)) :
        LET r == RequestsOf(c)[i]
        IN  IF i = 1
            THEN /\ r.url = PrimaryUrl
                 /\ r.data.messages =
                       (IF op[c] = "generate"
                        THEN <<[role |-> "user", content |-> Argument(c)]>>
                        ELSE Argument(c))
            ELSE /\ r.url = AlternateUrl(op[c])
                 /\ CarriesArgument(c, r)

\* C15: concurrent calls on one instance do not interfere: in every
\* interleaving each POST of a call carries that call's own argument; two
\* calls of the same operation that received the same answers ended the same
\* way; a step of one call changes nothing of another call; and no step
\* changes the base address or the model of the instance.
C15_ConcurrentCallsIndependent ==
    /\ [](\A c \in DOMAIN pc : OwnRequests(c))
    /\ [](\A c1, c2 \in DOMAIN pc :
             (/\ pc[c1] = "done" /\ pc[c2] = "done"
              /\ op[c1] = op[c2] /\ received[c1] = received[c2])
                 => outcome[c1] = outcome[c2])
    /\ [][/\ baseUrl' = baseUrl /\ model' = model
          /\ \A c1, c2 \in DOMAIN pc :
                (c1 # c2 /\ CallState(c1)' # CallState(c1))
                    => CallState(c2)' = CallState(c2)]_vars

\* two calls interleaved: 1 begins, 2 begins, 1 falls back, both end
C15_Witness ==
    /\ Len(sent) >= 3
    /\ sent[1].call = 1 /\ sent[2].call = 2 /\ sent[3].call = 1
    /\ op[1] # op[2]
    /\ pc[1] = "done" /\ pc[2] = "done"
    /\ outcome[1].t = "return" /\ outcome[2].t = "throw"

(***************************************************************************)
(* What the requests carry.                                                *)
(***************************************************************************)
\* C16: chat sends the caller's message list unchanged as the messages field
\* of the primary request and of the alternate /api/chat request; generate
\* sends the prompt as exactly one user-role message in the primary request
\* and as the bare prompt field of the alternate /api/generate request; every
\* request names the configured model.
C16_PayloadPassThrough ==
    \A c \in Calls :
        \A i \in 1..Len(RequestsOf(c)) :
            LET r == RequestsOf(c)[i]
            IN  /\ r.data.model = model
                /\ (op[c] = "chat" /\ i = 1) =>
                       /\ r.url = PrimaryUrl
                       /\ r.data.messages = arg[c].list
                /\ (op[c] = "chat" /\ i = 2) =>
                       /\ r.url = baseUrl \o "/api/chat"
                       /\ r.data.messages = arg[c].list
                       /\ "prompt" \notin DOMAIN r.data
                /\ (op[c] = "generate" /\ i = 1) =>
                       /\ r.url = PrimaryUrl
                       /\ Len(r.data.messages) = 1
                       /\ r.data.messages[1] = [role |-> "user", content |-> arg[c].text]
                /\ (op[c] = "generate" /\ i = 2) =>
                       /\ r.url = baseUrl \o "/api/generate"
                       /\ r.data.prompt = arg[c].text
                       /\ "messages" \notin DOMAIN r.data

\* a chat with a history of two messages that fell back to /api/chat
C16_Witness ==
    /\ op[1] = "chat" /\ Len(arg[1].list) = 2
    /\ arg[1].list[1] # arg[1].list[2]
    /\ Len(RequestsOf(1)) = 2

(***************************************************************************)
(* searchWeb called again and again by one caller: SpecSearchLog.          *)
(***************************************************************************)
MaxSearches == 2

LogQueries  == {"cats", "bad" \o LoneSurrogate}
\* four of the SearchOutcomes: no body, a short and an overlong text, a 401
LogOutcomes ==
    {Return(Response(200, Undef)),
     Return(Response(200, JStr(Text(1)))),
     Return(Response(200, JStr(Text(SnippetLimit + 1)))),
     Throw(AxiosError("Request failed with status code 401",
                      Response(401, JStr("denied")), TRUE))}

\* a finished call, as its caller saw it
Run == [query |-> sArgs.query, limit |-> sArgs.limit, sent |-> sSent,
        received |-> sReceived, outcome |-> sOutcome]

\* the promise of searchWeb resolves: the caller has the result and the
\* scraper, which keeps nothing of the call, can be called again
SearchTaken ==
    /\ sPc = "done"
    /\ Cardinality(sLog \cup {Run}) <= MaxSearches
    /\ sLog' = sLog \cup {Run}
    /\ sPc' = "idle" /\ sArgs' = Undef /\ sSent' = <<>>
    /\ sReceived' = <<>> /\ sOutcome' = Pending
    /\ UNCHANGED <<scraper, tool, cfgVars, llmVars, parseVars>>

NextSearchLog ==
    \/ \E q \in LogQueries, l \in Limits : SearchWeb(q, l) /\ UNCHANGED <<sLog, tool>>
    \/ \E out \in LogOutcomes : SearchReturns(out) /\ UNCHANGED <<sLog, tool>>
    \/ SearchTaken

SpecSearchLog == InitSearch /\ [][NextSearchLog]_vars

\* the calls that have returned, the one not yet taken included
Runs == sLog \cup (IF sPc = "done" THEN {Run} ELSE {})

\* C17: searchWeb returns a sequence of 0 or 1 elements, and limit has no
\* influence: two calls with the same query send the same request, and if
\* the provider answered them the same way they return the same sequence,
\* whatever their limits.
C17_LimitHasNoInfluence ==
    /\ \A r \in Runs : r.outcome.t = "return" /\ Len(r.outcome.value) \in {0, 1}
    /\ \A r1, r2 \in Runs :
          r1.query = r2.query =>
              /\ r1.sent = r2.sent
              /\ r1.received = r2.received => r1.outcome = r2.outcome

\* the same query answered the same way under limit 0 and under limit 10:
\* one result each time
C17_Witness ==
    \E r1, r2 \in sLog :
        /\ r1.limit = 0 /\ r2.limit = 10
        /\ r1.query = r2.query /\ r1.received = r2.received
        /\ Len(r1.sent) = 1
        /\ Len(r1.outcome.value) = 1 /\ Len(r2.outcome.value) = 1

(***************************************************************************)
(* Classification of a failed primary attempt.                             *)
(***************************************************************************)
\* the primary attempt of call c is over and did not give the call's result
PrimaryFailed(c) ==
    /\ PrimaryAnswered(c)
    /\ ~ (Len(RequestsOf(c)) = 1 /\ outcome[c].t = "return")
\* the primary POST was rejected by an error that says the request was sent
PrimaryRequestSent(c) ==
    received[c][1].t = "throw" /\ received[c][1].error.request
\* call c went on to the alternate endpoint
FellBack(c) == Len(RequestsOf(c)) = 2
\* call c ended at the primary attempt, throwing
ThrewAtPrimary(c) ==
    Len(RequestsOf(c)) = 1 /\ pc[c] = "done" /\ outcome[c].t = "throw"

\* C18: every failed primary attempt leads to exactly one of fallback,
\* BackendError, TransportError, RequestError; with an HTTP response the
\* status alone decides (404/405: fallback, otherwise BackendError) whether
\* or not request information is present; TransportError exactly when there
\* is no response but the request was sent; RequestError exactly when
\* neither is present.
C18_ClassificationTotalExclusive ==
    \A c \in Calls :
        PrimaryFailed(c) =>
            LET fb == FellBack(c)
                be == ThrewAtPrimary(c) /\ IsBackendError(outcome[c].error)
                te == ThrewAtPrimary(c) /\ IsTransportError(outcome[c].error)
                re == ThrewAtPrimary(c) /\ IsRequestError(outcome[c].error)
                classes == <<fb, be, te, re>>
            IN  /\ Cardinality({k \in 1..4 : classes[k]}) = 1
                /\ PrimaryHttpError(c) =>
                      /\ fb <=> PrimaryStatus(c) \in {404, 405}
                      /\ be <=> PrimaryStatus(c) \notin {404, 405}
                /\ te <=> (~ PrimaryHttpError(c) /\ PrimaryRequestSent(c))
                /\ re <=> (~ PrimaryHttpError(c) /\ ~ PrimaryRequestSent(c))

\* a 500 answer whose error also holds the request: BackendError
C18_Witness ==
    /\ PrimaryHttpError(1) /\ PrimaryRequestSent(1)
    /\ PrimaryStatus(1) = 500
    /\ ThrewAtPrimary(1) /\ IsBackendError(outcome[1].error)

(***************************************************************************)
(* What a call returns.                                                    *)
(***************************************************************************)
\* the answer call c received last
LastReceived(c) == received[c][Len(received[c])]

\* C19: when generate or chat returns, the value is a non-empty content
\* value of the last response received: never the empty string, and after a
\* fallback the `response` or the `message.content` of the alternate
\* answer, never anything of the primary one.
C19_ReturnsNonEmptyFromLastResponse ==
    \A c \in Calls :
        (pc[c] = "done" /\ outcome[c].t = "return") =>
            LET v == outcome[c].value
            IN  /\ Truthy(v) /\ v # JStr("")
                /\ Len(received[c]) = Len(RequestsOf(c))
                /\ LastReceived(c).t = "return"
                /\ LET data == LastReceived(c).value.data
                   IN  IF Len(RequestsOf(c)) = 1
                       THEN /\ PrimaryShape(data)
                            /\ v = Get(Get(Get(data, "choices").a[1], "message"), "content")
                       ELSE /\ received[c][1].t = "throw"
                            /\ v \in {Get(data, "response"),
                                      Get(Get(data, "message"), "content")}

\* a fallback answered with an empty `response` and a non-empty
\* message.content: the call returns the latter
C19_Witness ==
    /\ pc[1] = "done" /\ outcome[1].t = "return"
    /\ Len(RequestsOf(1)) = 2
    /\ Get(LastReceived(1).value.data, "response") = JStr("")
    /\ outcome[1].value = JStr("hey")

====
